---- MODULE Spec2Model ----
(***************************************************************************)
(* log_fwd: the file-backed circular buffer (src/buffer.go).               *)
(*                                                                         *)
(* The buffer file is a sequence of bytes; file offset k of the code is    *)
(* element k+1 of the sequence.  Bytes accepted by Write are stamped       *)
(* 1, 2, 3, ... in the order they are accepted, so that the position of    *)
(* every byte in the written stream can be read off its value; a byte the  *)
(* process never wrote (zero fill of Truncate, leftover file content) is   *)
(* 0.                                                                      *)
(***************************************************************************)
EXTENDS Integers, Sequences, FiniteSets, TLC

\* ---- bounds of the model ----
MaxMaxSize == 5      \* largest -maxsize value tried
MaxExisting == 2     \* largest length of a buffer file found on disk
MaxWritten == 6      \* total number of bytes accepted by Write in a run
MaxReadBytes == 2    \* largest maxBytes argument of Read that is below the ceiling
NumProcs == 2        \* goroutines that call the buffer concurrently
MaxLines == 2        \* lines the input stream delivers in a run
PipeMaxSize == 8     \* -maxsize of the runs of the whole program
MaxMaxRetries == 1   \* largest -max-retries value tried
MaxBatchSize == 2    \* largest -batch-size value tried
MaxBatchCount == 3   \* batch requests accepted in a run

\* ---- program constants ----
\* src/config.go:15 sets 64 * 1024; the model scales the floor size down so
\* that ceilings below, at and above the floor are all inside the bounds.
InitialBufferSize == 4
\* src/config.go:14 sets 4096; scaled with the buffer sizes
ReadChunkSize == 4
\* src/processor.go:80 sets 100, src/processor.go:77 sets 60; scaled
maxNoProgress == 2
maxConnectionRetries == 2
\* "\n"
Newline == 10

VARIABLES
    file,       \* content of the backing file (cb.file)
    readPos,    \* cb.readPos
    writePos,   \* cb.writePos
    size,       \* cb.size
    fileSize,   \* cb.fileSize
    maxSize,    \* cb.maxSize
    written,    \* number of bytes accepted by Write so far
    readLog,    \* concatenation of everything Read has returned
    fits,       \* every Write so far had size + len(data) <= maxSize
    op          \* the last call: its arguments, its result, the state it found

\* goroutines calling one buffer (buffer_test.go:830-877, webrequest_test.go:546-551)
VARIABLES
    mutex,      \* cb.mutex: 0 when free, else the goroutine that holds it
    pc,         \* where each goroutine stands inside the method it called
    loc         \* each goroutine's arguments and local variables

conc == <<mutex, pc, loc>>

\* the whole program: main, ProcessInput and HTTPClient.SendLogs
VARIABLES
    config,             \* cfg: MaxRetries, EnableBatching, BatchSize
    ctxDone,            \* the cancellation token has fired
    signal,             \* number of signals held by the channel newLogs (capacity 1)
    scanned,            \* lines the scanner has returned so far
    ipc,                \* where ProcessInput stands
    line,               \* the line ProcessInput is handling
    hasProcessedLogs,   \* ProcessInput's local variables
    lastSize,
    noProgressCount,
    connectionRetries,
    exited,             \* main has returned, the process is gone
    dpc,                \* where SendLogs stands
    requestQueue,       \* SendLogs' local variables
    successCount,
    failCount,
    batchCount,
    nextEid,            \* number of queue entries created so far
    outcome,            \* what became of every queue entry that left the queue
    ev                  \* the last step of the program that matters to a reader

\* the file handle, a call of calculateBackoff, and the streaming sender
VARIABLES
    closed,             \* cb.file has been closed
    calc,               \* the call of calculateBackoff: argument and result
    stream              \* PapertrailClient.SendLogs: position, conn, data, bytes sent

aux == <<closed, calc, stream>>

ingest == <<scanned, ipc, line, hasProcessedLogs, lastSize, noProgressCount,
            connectionRetries, exited>>
deliver == <<dpc, requestQueue, successCount, failCount, batchCount, nextEid, outcome>>
pipe == <<config, ctxDone, signal, ingest, deliver, ev>>

vars == <<file, readPos, writePos, size, fileSize, maxSize, written, readLog, fits, op,
          mutex, pc, loc,
          config, ctxDone, signal, scanned, ipc, line, hasProcessedLogs, lastSize,
          noProgressCount, connectionRetries, exited, dpc, requestQueue, successCount,
          failCount, batchCount, nextEid, outcome, ev,
          closed, calc, stream>>

Min(a, b) == IF a < b THEN a ELSE b
Max(a, b) == IF a > b THEN a ELSE b

\* the n bytes that follow the first `from` bytes of the written stream
Stamps(from, n) == [i \in 1..n |-> from + i]

SubSeqFrom(s, k) == SubSeq(s, k, Len(s))

\* ---- os.File ----
\* File.Truncate(n): the file gets length n, new bytes are zero
Truncate(f, n) == [i \in 1..n |-> IF i <= Len(f) THEN f[i] ELSE 0]

\* File.WriteAt(b, off): writes b at offset off, extending the file if needed
WriteAt(f, b, off) ==
    IF Len(b) = 0 THEN f
    ELSE [i \in 1..Max(Len(f), off + Len(b)) |->
            IF i > off /\ i <= off + Len(b) THEN b[i - off]
            ELSE IF i <= Len(f) THEN f[i] ELSE 0]

\* File.ReadAt(b, off) succeeds only if len(b) bytes are there
ReadAtOK(f, n, off) == n = 0 \/ off + n <= Len(f)
ReadAt(f, n, off) == [i \in 1..n |-> f[off + i]]

\* ---- CircularBuffer.Write ----
\* buffer.go:72  "data exceeds maximum buffer size"
TooLargeOffByOne(dataLen, max) == dataLen > max + 1
TooLargeInclusive(dataLen, max) == dataLen >= max
TooLarge(dataLen, max) == dataLen > max

\* buffer.go:80-83
NewSize(fs, max) == IF fs * 2 > max THEN max ELSE fs * 2

\* buffer.go:85
EvictBranch(requiredSpace, newSize, sz, max) == newSize < requiredSpace /\ sz < max

\* buffer.go:89
GrowBranch(requiredSpace, newSize) == newSize >= requiredSpace

\* buffer.go:98-113: one WriteAt, or a tail chunk and a head chunk at offset 0
WriteDataNoWrap(f, data, wp, fs) == WriteAt(f, data, wp)
WriteData(f, data, wp, fs) ==
    IF wp + Len(data) <= fs
    THEN WriteAt(f, data, wp)
    ELSE LET firstChunkSize == fs - wp
         IN  WriteAt(WriteAt(f, SubSeq(data, 1, firstChunkSize), wp),
                     SubSeqFrom(data, firstChunkSize + 1), 0)

\* buffer.go:106-110: data[:firstChunkSize] and data[firstChunkSize:] need
\* 0 <= firstChunkSize <= len(data), and WriteAt needs an offset >= 0
SliceOK(dataLen, wp, fs) ==
    /\ wp >= 0
    /\ (wp + dataLen > fs) => (fs - wp >= 0 /\ fs - wp <= dataLen)

WriteChunks(dataLen, wp, fs) == IF wp + dataLen <= fs THEN 1 ELSE 2

\* buffer.go:116 and buffer.go:164
Advance(pos, n, fs) == (pos + n) % fs

\* buffer.go:119-124
SizeAfterWrite(sz, dataLen, fs) ==
    IF sz < fs THEN (IF sz + dataLen > fs THEN fs ELSE sz + dataLen) ELSE sz

CB == [file |-> file, readPos |-> readPos, writePos |-> writePos,
       size |-> size, fileSize |-> fileSize, maxSize |-> maxSize]

\* the whole of Write: the buffer it leaves and what it returns
WriteResult(cb, data) ==
    LET dataLen == Len(data) IN
    IF TooLarge(dataLen, cb.maxSize)
    THEN [cb |-> cb, n |-> 0, err |-> "TooLarge", chunks |-> 0,
          grew |-> FALSE, evicted |-> FALSE]
    ELSE
      LET requiredSpace == cb.size + dataLen
          newSize == NewSize(cb.fileSize, cb.maxSize)
          over == requiredSpace > cb.fileSize
          evict == over /\ EvictBranch(requiredSpace, newSize, cb.size, cb.maxSize)
          grow == over /\ ~evict /\ GrowBranch(requiredSpace, newSize)
          cb1 == IF evict
                 THEN [cb EXCEPT !.readPos = (cb.writePos + dataLen) % cb.fileSize,
                                 !.size = cb.fileSize]
                 ELSE IF grow
                 THEN [cb EXCEPT !.file = Truncate(cb.file, newSize),
                                 !.fileSize = newSize]
                 ELSE cb
          cb2 == [cb1 EXCEPT !.file = WriteData(cb1.file, data, cb1.writePos, cb1.fileSize)]
          cb3 == [cb2 EXCEPT !.writePos = Advance(cb2.writePos, dataLen, cb2.fileSize),
                             !.size = SizeAfterWrite(cb2.size, dataLen, cb2.fileSize)]
      IN  IF ~SliceOK(dataLen, cb1.writePos, cb1.fileSize)
          THEN [cb |-> cb1, n |-> 0, err |-> "panic", chunks |-> 0,
                grew |-> grow, evicted |-> evict]
          ELSE [cb |-> cb3, n |-> dataLen, err |-> "nil",
                chunks |-> WriteChunks(dataLen, cb1.writePos, cb1.fileSize),
                grew |-> grow, evicted |-> evict]

\* ---- CircularBuffer.Read ----
\* buffer.go:139-142
ToReadAll(sz, maxBytes) == sz
ToRead(sz, maxBytes) == IF sz > maxBytes THEN maxBytes ELSE sz

ReadChunks(toRead, rp, fs) == IF rp + toRead <= fs THEN 1 ELSE 2

\* buffer.go:146-161
ReadDataOK(f, toRead, rp, fs) ==
    IF rp + toRead <= fs
    THEN ReadAtOK(f, toRead, rp)
    ELSE ReadAtOK(f, fs - rp, rp) /\ ReadAtOK(f, toRead - (fs - rp), 0)

ReadData(f, toRead, rp, fs) ==
    IF rp + toRead <= fs
    THEN ReadAt(f, toRead, rp)
    ELSE LET firstChunkSize == fs - rp
         IN  ReadAt(f, firstChunkSize, rp) \o ReadAt(f, toRead - firstChunkSize, 0)

ReadResult(cb, maxBytes) ==
    IF cb.size = 0
    THEN [cb |-> cb, data |-> <<>>, err |-> "EOF", chunks |-> 0]
    ELSE
      LET toRead == ToRead(cb.size, maxBytes) IN
      IF ~ReadDataOK(cb.file, toRead, cb.readPos, cb.fileSize)
      THEN [cb |-> cb, data |-> <<>>, err |-> "io", chunks |-> 0]
      ELSE [cb |-> [cb EXCEPT !.readPos = Advance(cb.readPos, toRead, cb.fileSize),
                              !.size = cb.size - toRead],
            data |-> ReadData(cb.file, toRead, cb.readPos, cb.fileSize),
            err |-> "nil",
            chunks |-> ReadChunks(toRead, cb.readPos, cb.fileSize)]

\* ---- the calls ----
NoData == <<>>

Call(name, data, maxBytes, ret, err, chunks, grew, evicted) ==
    [name |-> name, data |-> data, maxBytes |-> maxBytes, ret |-> ret, err |-> err,
     chunks |-> chunks, grew |-> grew, evicted |-> evicted,
     preSize |-> size, preReadPos |-> readPos, preWritePos |-> writePos,
     preFileSize |-> fileSize]

\* NewBuffer(path, maxSize), for a file of length `existing` found at path
NewBuffer(max, existing) ==
    /\ maxSize = max
    /\ fileSize = (IF existing = 0 THEN InitialBufferSize ELSE existing)
    /\ file = Truncate(<<>>, IF existing = 0 THEN InitialBufferSize ELSE existing)
    /\ size = 0
    /\ readPos = 0
    /\ writePos = 0

Procs == 1..NumProcs

NoSnap == [file |-> <<>>, readPos |-> 0, writePos |-> 0, size |-> 0, fileSize |-> 0,
           maxSize |-> 0]
NoLoc == [data |-> <<>>, maxBytes |-> 0, toRead |-> 0, ret |-> <<>>, snap |-> NoSnap]

\* no goroutine is inside a buffer method
ConcIdle ==
    /\ mutex = 0
    /\ pc = [p \in Procs |-> "idle"]
    /\ loc = [p \in Procs |-> NoLoc]

\* the file is open, calculateBackoff has not been called
NoCalc == [retryCount |-> 0, backoff |-> <<>>, jitter |-> 0, done |-> FALSE]
\* part_005:40-41: SendLogs is at the head of its loop with conn nil
NoStream == [pc |-> "top", conn |-> FALSE, data |-> <<>>, sent |-> <<>>]
AuxIdle ==
    /\ closed = FALSE
    /\ calc = NoCalc
    /\ stream = NoStream

\* iexit, dexit: the return that ProcessInput, SendLogs took; startCancelled:
\* the token had fired when SendLogs started; didRead, didSend, didSkip:
\* SendLogs has read the buffer, has transmitted, has held a batch back;
\* accepted: the bytes of the records that Write has taken, in order
NoEv == [iexit |-> "none", dexit |-> "none", startCancelled |-> FALSE,
         didRead |-> FALSE, didSend |-> FALSE, didSkip |-> FALSE,
         accepted |-> <<>>]

\* the program has not been started
PipeIdle ==
    /\ config = [MaxRetries |-> 0, EnableBatching |-> FALSE, BatchSize |-> 0]
    /\ ctxDone = FALSE
    /\ signal = 0
    /\ scanned = 0
    /\ ipc = "none"
    /\ line = <<>>
    /\ hasProcessedLogs = FALSE
    /\ lastSize = 0
    /\ noProgressCount = 0
    /\ connectionRetries = 0
    /\ exited = FALSE
    /\ dpc = "none"
    /\ requestQueue = <<>>
    /\ successCount = 0
    /\ failCount = 0
    /\ batchCount = 0
    /\ nextEid = 0
    /\ outcome = {}
    /\ ev = NoEv

Init ==
    /\ ConcIdle
    /\ PipeIdle
    /\ AuxIdle
    /\ \E max \in 1..MaxMaxSize, existing \in 0..MaxExisting : NewBuffer(max, existing)
    /\ written = 0
    /\ readLog = <<>>
    /\ fits = TRUE
    /\ op = [name |-> "new", data |-> NoData, maxBytes |-> 0, ret |-> NoData,
             err |-> "nil", chunks |-> 0, grew |-> FALSE, evicted |-> FALSE,
             preSize |-> 0, preReadPos |-> 0, preWritePos |-> 0, preFileSize |-> 0]

Write ==
    \E n \in 0..(maxSize + 1) :
      LET data == Stamps(written, n)
          r == WriteResult(CB, data)
      IN  /\ written + r.n <= MaxWritten
          /\ file' = r.cb.file
          /\ readPos' = r.cb.readPos
          /\ writePos' = r.cb.writePos
          /\ size' = r.cb.size
          /\ fileSize' = r.cb.fileSize
          /\ written' = written + r.n
          /\ fits' = (fits /\ (r.err = "nil" => size + n <= maxSize))
          /\ op' = Call("write", data, 0, <<r.n>>, r.err, r.chunks, r.grew, r.evicted)
          /\ UNCHANGED <<maxSize, readLog>>
          /\ UNCHANGED <<conc, pipe, aux>>

Read ==
    \E maxBytes \in (1..MaxReadBytes) \cup {maxSize, maxSize + fileSize} :
      LET r == ReadResult(CB, maxBytes)
      IN  /\ file' = r.cb.file
          /\ readPos' = r.cb.readPos
          /\ size' = r.cb.size
          /\ readLog' = readLog \o r.data
          /\ op' = Call("read", NoData, maxBytes, r.data, r.err, r.chunks, FALSE, FALSE)
          /\ UNCHANGED <<writePos, fileSize, maxSize, written, fits>>
          /\ UNCHANGED <<conc, pipe, aux>>

\* buffer.go:171-175
HasData ==
    /\ op' = Call("hasdata", NoData, 0, <<size > 0>>, "nil", 0, FALSE, FALSE)
    /\ UNCHANGED <<file, readPos, writePos, size, fileSize, maxSize, written, readLog, fits>>
    /\ UNCHANGED <<conc, pipe, aux>>

\* client.go:809-814
GetSize ==
    /\ op' = Call("getsize", NoData, 0, <<size>>, "nil", 0, FALSE, FALSE)
    /\ UNCHANGED <<file, readPos, writePos, size, fileSize, maxSize, written, readLog, fits>>
    /\ UNCHANGED <<conc, pipe, aux>>

Next == Write \/ Read \/ HasData \/ GetSize

Spec == Init /\ [][Next]_vars

TypeOK ==
    /\ readPos \in 0..(fileSize - 1)
    /\ writePos \in 0..(fileSize - 1)
    /\ size \in 0..fileSize
    /\ Len(file) >= fileSize

\* ---- what the buffer is meant to hold ----
\* byte i (from 0) of the unread region [readPos, readPos + size) mod fileSize
Unread(i) == file[((readPos + i) % fileSize) + 1]

\* the unread region ends at the write cursor and holds the last `size`
\* accepted bytes in the order they were written
Consistent ==
    /\ writePos = (readPos + size) % fileSize
    /\ \A i \in 0..(size - 1) : Unread(i) = written - size + 1 + i

\* ---- C1 ----
\* C1: as long as no write needed more than maxSize (size + len(data) <= maxSize
\* at every Write), everything Read has returned is a prefix of everything
\* Write has accepted.
C1_FifoPrefix == fits => \A i \in 1..Len(readLog) : readLog[i] = i

\* ---- C2 ----
\* C2: a Write of d (0 < len(d) < capacity) into an empty buffer followed at
\* once by Read(len(d)) returns exactly d and leaves the buffer empty.
C2_Step ==
    (/\ op.name = "write" /\ op.err = "nil" /\ op.preSize = 0
     /\ Len(op.data) >= 1 /\ Len(op.data) < fileSize
     /\ op'.name = "read" /\ op'.maxBytes = Len(op.data))
    => (op'.err = "nil" /\ op'.ret = op.data /\ size' = 0)

C2_RoundTrip == [][C2_Step]_vars

\* ---- C3 ----
\* C3: from a consistent buffer, a Write of n <= capacity - size bytes keeps
\* the capacity and the read cursor, stores the data as a tail chunk at the
\* write cursor followed by a head chunk at offset 0 when it crosses the end
\* of the file, and leaves the buffer consistent; a Read from a consistent
\* buffer returns the min(size, maxBytes) oldest unread bytes in written
\* order and leaves the buffer consistent.
C3_WriteStep ==
    (/\ Consistent /\ op'.name = "write" /\ op'.err = "nil"
     /\ Len(op'.data) <= fileSize - size)
    => LET n == Len(op'.data)
           first == fileSize - writePos
       IN  /\ fileSize' = fileSize
           /\ readPos' = readPos
           /\ size' = size + n
           /\ Consistent'
           /\ (writePos + n > fileSize) =>
                 /\ op'.chunks = 2
                 /\ \A k \in 1..first : file'[writePos + k] = op'.data[k]
                 /\ \A k \in 1..(n - first) : file'[k] = op'.data[first + k]
           /\ (writePos + n <= fileSize) => op'.chunks = 1
           /\ Len(file') = Len(file)

C3_ReadStep ==
    (Consistent /\ op'.name = "read" /\ size > 0)
    => /\ op'.err = "nil"
       /\ op'.ret = Stamps(written - size, Min(size, op'.maxBytes))
       /\ Consistent'

C4_Step ==
    (op'.name = "write" /\ Len(op'.data) > maxSize)
    => /\ op'.err = "TooLarge"
       /\ op'.ret = <<0>>
       /\ UNCHANGED <<file, readPos, writePos, size, fileSize, maxSize>>

C4_RejectedWrite == [][C4_Step]_vars

\* an oversized write was rejected while unread bytes were held
C4_Witness ==
    /\ op.name = "write" /\ op.err = "TooLarge"
    /\ Len(op.data) > maxSize
    /\ op.preSize > 0 /\ size = op.preSize

\* ---- C5 ----
\* C5: a Write of at most maxSize bytes returns len(data) and no error,
\* whatever the occupancy.
C5_NoError ==
    (op.name = "write" /\ Len(op.data) <= maxSize)
    => (op.err = "nil" /\ op.ret = <<Len(op.data)>>)

\* a write of exactly maxSize bytes succeeded although the unread bytes and
\* the data together exceed the ceiling
C5_Witness ==
    /\ op.name = "write" /\ op.err = "nil"
    /\ Len(op.data) = maxSize
    /\ op.preSize > 0
    /\ op.preSize + Len(op.data) > maxSize

\* ---- C6 ----
\* C6: a Write into a buffer that is full at the ceiling (size = capacity =
\* maxSize) advances the read cursor by the overflow size + len(data) -
\* capacity and leaves size = capacity.
C6_Eviction ==
    (/\ op.name = "write" /\ op.err = "nil"
     /\ op.preFileSize = maxSize /\ op.preSize = maxSize)
    => /\ size = fileSize
       /\ readPos = (op.preReadPos + op.preSize + Len(op.data) - op.preFileSize) % fileSize

\* ---- C7 ----
\* C7: an accepted Write with size + len(data) > capacity and capacity <
\* maxSize leaves capacity = min(2 * capacity before, maxSize).
C7_Growth ==
    (/\ op.name = "write" /\ op.err = "nil"
     /\ op.preSize + Len(op.data) > op.preFileSize
     /\ op.preFileSize < maxSize)
    => fileSize = Min(2 * op.preFileSize, maxSize)

\* ---- C8 ----
\* C8: a Write with size + len(data) <= maxSize drops nothing (size grows by
\* len(data)), and the eviction branch is taken only when capacity has
\* reached maxSize.
C8_EvictOnlyAtCeiling ==
    (op.name = "write" /\ op.err = "nil")
    => /\ (op.preSize + Len(op.data) <= maxSize)
            => (~op.evicted /\ size = op.preSize + Len(op.data))
       /\ op.evicted => op.preFileSize >= maxSize

\* ---- C9 ----
\* C9: capacity never exceeds maxSize.
C9_CapacityCeiling == fileSize <= maxSize

\* ---- C10 ----
\* C10: size never exceeds maxSize and no Read returns more than maxSize bytes.
C10_SizeCeiling ==
    /\ size <= maxSize
    /\ op.name = "read" => Len(op.ret) <= maxSize

\* ---- C12 ----
\* C12: Read(maxBytes) returns the end-of-data condition and no bytes exactly
\* when size = 0; otherwise it returns the min(size, maxBytes) bytes that
\* start at the read cursor, advances readPos by that amount modulo capacity
\* and decrements size by it, so that a partial read leaves HasData true.
C12_ReadContract ==
    op.name = "read" =>
      LET n == Min(op.preSize, op.maxBytes) IN
      /\ (op.err = "EOF") <=> (op.preSize = 0)
      /\ op.err \in {"EOF", "nil"}
      /\ op.err = "EOF" =>
            (op.ret = <<>> /\ size = 0 /\ readPos = op.preReadPos)
      /\ op.err = "nil" =>
            /\ Len(op.ret) = n
            /\ \A i \in 1..n : op.ret[i] = file[((op.preReadPos + i - 1) % fileSize) + 1]
            /\ readPos = (op.preReadPos + n) % fileSize
            /\ size = op.preSize - n
            /\ (n < op.preSize) => size > 0
      /\ fileSize = op.preFileSize /\ writePos = op.preWritePos

\* a partial read that crossed the end of the file and left data behind
C12_Witness ==
    /\ op.name = "read" /\ op.err = "nil"
    /\ op.maxBytes < op.preSize
    /\ Len(op.ret) = op.maxBytes
    /\ op.chunks = 2
    /\ size > 0

\* ---- concurrent callers: every method body runs between Lock and Unlock ----
\* sync.Mutex.Lock() returns only when the mutex is free
LockIgnored(m) == TRUE
LockFree(m) == m = 0

Enter(p, label, l) ==
    /\ pc[p] = "idle"
    /\ LockFree(mutex)
    /\ mutex' = p
    /\ pc' = [pc EXCEPT ![p] = label]
    /\ loc' = [loc EXCEPT ![p] = l]

\* the deferred cb.mutex.Unlock() and the return
Leave(p) ==
    /\ mutex' = 0
    /\ pc' = [pc EXCEPT ![p] = "idle"]
    /\ loc' = [loc EXCEPT ![p] = NoLoc]

Goto(p, label) ==
    /\ pc' = [pc EXCEPT ![p] = label]
    /\ UNCHANGED mutex

\* buffer.go:66: Write takes the lock
CWriteLock(p) ==
    /\ \E n \in 0..(maxSize + 1) :
         /\ written + n <= MaxWritten
         /\ Enter(p, "w1", [NoLoc EXCEPT !.data = Stamps(written, n), !.snap = CB])
    /\ UNCHANGED <<file, readPos, writePos, size, fileSize, maxSize, written, readLog, fits, op, pipe, aux>>

\* buffer.go:69-96: the size check, then eviction or growth
CWriteRoom(p) ==
    /\ pc[p] = "w1"
    /\ LET dataLen == Len(loc[p].data)
           requiredSpace == size + dataLen
           newSize == NewSize(fileSize, maxSize)
           over == requiredSpace > fileSize
           evict == over /\ EvictBranch(requiredSpace, newSize, size, maxSize)
           grow == over /\ ~evict /\ GrowBranch(requiredSpace, newSize)
       IN  IF TooLarge(dataLen, maxSize)
           THEN /\ Leave(p)
                /\ UNCHANGED <<file, readPos, size, fileSize>>
           ELSE /\ Goto(p, "w2")
                /\ UNCHANGED loc
                /\ readPos' = (IF evict THEN (writePos + dataLen) % fileSize ELSE readPos)
                /\ size' = (IF evict THEN fileSize ELSE size)
                /\ file' = (IF grow THEN Truncate(file, newSize) ELSE file)
                /\ fileSize' = (IF grow THEN newSize ELSE fileSize)
    /\ UNCHANGED <<writePos, maxSize, written, readLog, fits, op, pipe, aux>>

\* buffer.go:98-113: the data goes to the file
CWriteData(p) ==
    /\ pc[p] = "w2"
    /\ IF SliceOK(Len(loc[p].data), writePos, fileSize)
       THEN /\ file' = WriteData(file, loc[p].data, writePos, fileSize)
            /\ Goto(p, "w3")
            /\ UNCHANGED loc
       ELSE /\ Leave(p)
            /\ UNCHANGED file
    /\ UNCHANGED <<readPos, writePos, size, fileSize, maxSize, written, readLog, fits, op, pipe, aux>>

\* buffer.go:115-126: the cursor and the size are updated, the lock released
CWriteDone(p) ==
    /\ pc[p] = "w3"
    /\ writePos' = Advance(writePos, Len(loc[p].data), fileSize)
    /\ size' = SizeAfterWrite(size, Len(loc[p].data), fileSize)
    /\ written' = written + Len(loc[p].data)
    /\ Leave(p)
    /\ UNCHANGED <<file, readPos, fileSize, maxSize, readLog, fits, op, pipe, aux>>

\* buffer.go:131: Read takes the lock
CReadLock(p) ==
    /\ \E maxBytes \in (1..MaxReadBytes) \cup {maxSize + fileSize} :
         Enter(p, "r1", [NoLoc EXCEPT !.maxBytes = maxBytes, !.snap = CB])
    /\ UNCHANGED <<file, readPos, writePos, size, fileSize, maxSize, written, readLog, fits, op, pipe, aux>>

\* buffer.go:134-144
CReadSize(p) ==
    /\ pc[p] = "r1"
    /\ IF size = 0
       THEN Leave(p)
       ELSE /\ Goto(p, "r2")
            /\ loc' = [loc EXCEPT ![p].toRead = ToRead(size, loc[p].maxBytes)]
    /\ UNCHANGED <<file, readPos, writePos, size, fileSize, maxSize, written, readLog, fits, op, pipe, aux>>

\* buffer.go:146-161
CReadData(p) ==
    /\ pc[p] = "r2"
    /\ IF ReadDataOK(file, loc[p].toRead, readPos, fileSize)
       THEN /\ Goto(p, "r3")
            /\ loc' = [loc EXCEPT ![p].ret = ReadData(file, loc[p].toRead, readPos, fileSize)]
       ELSE Leave(p)
    /\ UNCHANGED <<file, readPos, writePos, size, fileSize, maxSize, written, readLog, fits, op, pipe, aux>>

\* buffer.go:163-167
CReadDone(p) ==
    /\ pc[p] = "r3"
    /\ readPos' = Advance(readPos, loc[p].toRead, fileSize)
    /\ size' = size - loc[p].toRead
    /\ Leave(p)
    /\ UNCHANGED <<file, writePos, fileSize, maxSize, written, readLog, fits, op, pipe, aux>>

\* buffer.go:172 and client.go:811: HasData and GetSize take the lock
CQueryLock(p) ==
    /\ Enter(p, "q1", [NoLoc EXCEPT !.snap = CB])
    /\ UNCHANGED <<file, readPos, writePos, size, fileSize, maxSize, written, readLog, fits, op, pipe, aux>>

\* buffer.go:174 and client.go:813: cb.size is read, the lock released
CQueryDone(p) ==
    /\ pc[p] = "q1"
    /\ Leave(p)
    /\ UNCHANGED <<file, readPos, writePos, size, fileSize, maxSize, written, readLog, fits, op, pipe, aux>>

ConcNext ==
    \E p \in Procs :
        \/ CWriteLock(p) \/ CWriteRoom(p) \/ CWriteData(p) \/ CWriteDone(p)
        \/ CReadLock(p) \/ CReadSize(p) \/ CReadData(p) \/ CReadDone(p)
        \/ CQueryLock(p) \/ CQueryDone(p)

ConcSpec == Init /\ [][ConcNext]_vars

\* ---- the whole program (webrequest_test.go:484-551) ----
bufc == <<file, readPos, writePos, size, fileSize>>
bufg == <<maxSize, written, readLog, fits, op>>
bufv == <<bufc, bufg>>

\* main: ParseFlags, NewBuffer on a fresh file or on the file an earlier
\* run left at the path, the channel, the sender goroutine started,
\* ProcessInput called
\* the configurations of the runs: retries and batch sizes of at least one
PipeConfigs ==
    {[MaxRetries |-> r, EnableBatching |-> b,
      BatchSize |-> IF b THEN n ELSE MaxBatchSize] :
        r \in 0..MaxMaxRetries, b \in BOOLEAN, n \in 1..MaxBatchSize}

\* Config.Validate (config.go:46-59) looks at Host, Port and AuthToken only:
\* -retries -1 and -batch 0 are accepted
EdgeConfigs ==
    {[MaxRetries |-> r, EnableBatching |-> TRUE, BatchSize |-> n] :
        r \in {-1, MaxMaxRetries}, n \in {0, MaxBatchSize}}

PipeStart(configs) ==
    /\ ConcIdle
    /\ AuxIdle
    /\ \E existing \in {0, MaxExisting} : NewBuffer(PipeMaxSize, existing)
    /\ written = 0
    /\ readLog = <<>>
    /\ fits = TRUE
    /\ op = [name |-> "new", data |-> NoData, maxBytes |-> 0, ret |-> NoData,
             err |-> "nil", chunks |-> 0, grew |-> FALSE, evicted |-> FALSE,
             preSize |-> 0, preReadPos |-> 0, preWritePos |-> 0, preFileSize |-> 0]
    /\ config \in configs
    /\ ctxDone = FALSE
    /\ signal = 0
    /\ scanned = 0
    /\ ipc = "scan"
    /\ line = <<>>
    /\ hasProcessedLogs = FALSE
    /\ lastSize = 0
    /\ noProgressCount = 0
    /\ connectionRetries = 0
    /\ exited = FALSE
    /\ dpc = "start"
    /\ requestQueue = <<>>
    /\ successCount = 0
    /\ failCount = 0
    /\ batchCount = 0
    /\ nextEid = 0
    /\ outcome = {}
    /\ ev = NoEv

PipeInit == PipeStart(PipeConfigs)
EdgeInit == PipeStart(EdgeConfigs)

\* setupSignalHandling (webrequest_test.go:554-562): a signal fires the token
Cancel ==
    /\ ~exited /\ ~ctxDone
    /\ ctxDone' = TRUE
    /\ UNCHANGED <<bufv, conc, aux, config, signal, ingest, deliver, ev>>

\* main returns when ProcessInput has returned (webrequest_test.go:550-551):
\* the deferred Close and cancel run and the process, with the sender
\* goroutine, is gone
MainExit ==
    /\ ~exited /\ ipc = "done"
    /\ exited' = TRUE
    /\ UNCHANGED <<bufv, conc, aux, config, ctxDone, signal, scanned, ipc, line,
                   hasProcessedLogs, lastSize, noProgressCount, connectionRetries,
                   deliver, ev>>

\* the same return of main, step by step: the deferred calls run last in,
\* first out, buffer.Close (webrequest_test.go:523-527) before cancel (514),
\* and the process ends when main has returned; SendLogs runs on until then
MainClose ==
    /\ ~exited /\ ipc = "done"
    /\ closed' = TRUE
    /\ ipc' = "deferred-close"
    /\ UNCHANGED <<bufv, conc, calc, stream, config, ctxDone, signal, scanned, line,
                   hasProcessedLogs, lastSize, noProgressCount, connectionRetries,
                   exited, deliver, ev>>

MainCancel ==
    /\ ~exited /\ ipc = "deferred-close"
    /\ ctxDone' = TRUE
    /\ ipc' = "deferred-cancel"
    /\ UNCHANGED <<bufv, conc, aux, config, signal, scanned, line,
                   hasProcessedLogs, lastSize, noProgressCount, connectionRetries,
                   exited, deliver, ev>>

MainEnd ==
    /\ ~exited /\ ipc = "deferred-cancel"
    /\ exited' = TRUE
    /\ UNCHANGED <<bufv, conc, aux, config, ctxDone, signal, scanned, ipc, line,
                   hasProcessedLogs, lastSize, noProgressCount, connectionRetries,
                   deliver, ev>>

\* ---- ProcessInput (processor.go) ----
\* the k-th input line, and a k-th line too long for the buffer
InputLine(k) == <<k>>
LongLine(k) == [i \in 1..maxSize |-> k]
InputLines(k) == {InputLine(k), LongLine(k)}
WideLine(k) == <<k, k>>

\* processor.go:41
LogMessage(l) == l \o <<Newline>>

\* processor.go:56-59 and 130-135: the non-blocking send
TrySendQueued(ch) == ch + 1
TrySendDropped(ch) == ch
TrySend(ch) == IF ch = 0 THEN 1 ELSE ch

\* processor.go:25-29: the look at the token at the head of the read loop
ReadLoopExit(done) == done

\* processor.go:28, 67 (else), 89, 115, 146: the returns that follow no Write
IReturn(how) ==
    /\ ipc' = "done"
    /\ ev' = [ev EXCEPT !.iexit = how]
    /\ UNCHANGED bufc

\* processor.go:23-37: Scan returns one of `lines`; the token is looked at first
IScan(lines) ==
    /\ ~exited /\ ipc = "scan"
    /\ scanned < MaxLines
    /\ scanned' = scanned + 1
    /\ IF ReadLoopExit(ctxDone)
       THEN /\ IReturn("cancel-read")
            /\ UNCHANGED <<line, hasProcessedLogs>>
       ELSE /\ \E l \in lines : line' = l
            /\ hasProcessedLogs' = TRUE
            /\ ipc' = "write"
            /\ UNCHANGED <<ev, bufc>>
    /\ UNCHANGED <<bufg, conc, aux, config, ctxDone, signal, lastSize, noProgressCount,
                   connectionRetries, exited, deliver>>

IScanLine == IScan(InputLines(scanned + 1))

\* the input holds a line of two bytes
IScanWide == IScan({WideLine(scanned + 1)})

\* processor.go:23 and 62-64: Scan returns false, the input has ended
IScanEnd ==
    /\ ~exited /\ ipc = "scan"
    /\ ipc' = "flushq"
    /\ UNCHANGED <<bufv, conc, aux, config, ctxDone, signal, scanned, line, hasProcessedLogs,
                   lastSize, noProgressCount, connectionRetries, exited, deliver, ev>>

\* processor.go:44-52: where ProcessInput goes after a failed Write
AfterWriteErrorAbort(done) == "done"
AfterWriteError(done) == IF done THEN "done" ELSE "scan"

\* processor.go:41-53: the record goes to the buffer; a failed write looks
\* at the token and goes on with the next line
IWrite ==
    /\ ~exited /\ ipc = "write"
    /\ LET r == WriteResult(CB, LogMessage(line))
       IN  /\ file' = r.cb.file
           /\ readPos' = r.cb.readPos
           /\ writePos' = r.cb.writePos
           /\ size' = r.cb.size
           /\ fileSize' = r.cb.fileSize
           /\ written' = written + r.n
           /\ fits' = (fits /\ (r.err = "nil" => size + Len(line) + 1 <= maxSize))
           /\ IF r.err = "nil"
              THEN /\ ipc' = "signal"
                   /\ ev' = [ev EXCEPT !.accepted = @ \o LogMessage(line)]
              ELSE /\ ipc' = AfterWriteError(ctxDone)
                   /\ ev' = [ev EXCEPT !.iexit = IF AfterWriteError(ctxDone) = "done"
                                                 THEN "cancel-write" ELSE @]
    /\ UNCHANGED <<maxSize, readLog, op, conc, aux, config, ctxDone, signal, scanned, line,
                   hasProcessedLogs, lastSize, noProgressCount, connectionRetries,
                   exited, deliver>>

\* processor.go:55-59
ISignal ==
    /\ ~exited /\ ipc = "signal"
    /\ signal' = TrySend(signal)
    /\ ipc' = "scan"
    /\ UNCHANGED <<bufv, conc, aux, config, ctxDone, scanned, line, hasProcessedLogs,
                   lastSize, noProgressCount, connectionRetries, exited, deliver, ev>>

\* processor.go:67: wait for the buffer only if something was read and is left
IFlushCheck ==
    /\ ~exited /\ ipc = "flushq"
    /\ IF hasProcessedLogs /\ size > 0
       THEN ipc' = "flush0" /\ UNCHANGED <<ev, bufc>>
       ELSE IReturn("nothing-to-flush")
    /\ UNCHANGED <<bufg, conc, aux, config, ctxDone, signal, scanned, line, hasProcessedLogs,
                   lastSize, noProgressCount, connectionRetries, exited, deliver>>

\* processor.go:68-83
IFlushStart ==
    /\ ~exited /\ ipc = "flush0"
    /\ connectionRetries' = 0
    /\ lastSize' = size
    /\ noProgressCount' = 0
    /\ ipc' = "flushloop"
    /\ UNCHANGED <<bufv, conc, aux, config, ctxDone, signal, scanned, line, hasProcessedLogs,
                   exited, deliver, ev>>

\* processor.go:85
IFlushLoop ==
    /\ ~exited /\ ipc = "flushloop"
    /\ ipc' = (IF size > 0 THEN "flushsel" ELSE "grace")
    /\ UNCHANGED <<bufv, conc, aux, config, ctxDone, signal, scanned, line, hasProcessedLogs,
                   lastSize, noProgressCount, connectionRetries, exited, deliver, ev>>

\* processor.go:87-90
IFlushCancel ==
    /\ ~exited /\ ipc = "flushsel"
    /\ ctxDone
    /\ IReturn("cancel-flush")
    /\ UNCHANGED <<bufg, conc, aux, config, ctxDone, signal, scanned, line, hasProcessedLogs,
                   lastSize, noProgressCount, connectionRetries, exited, deliver>>

\* processor.go:105, 112: the two thresholds of the stall detection
NoProgress(count) == count >= maxNoProgress
ConnectionDownAtOnce(retries) == TRUE
ConnectionDownNever(retries) == FALSE
ConnectionDown(retries) == retries >= maxConnectionRetries

\* processor.go:91-136: a tick of the 100 ms ticker
IFlushTick ==
    /\ ~exited /\ ipc = "flushsel"
    /\ LET currentSize == size IN
       IF currentSize = lastSize
       THEN /\ noProgressCount' = noProgressCount + 1
            /\ UNCHANGED lastSize
            /\ IF NoProgress(noProgressCount + 1)
               THEN /\ connectionRetries' = connectionRetries + 1
                    /\ IF ConnectionDown(connectionRetries + 1)
                       THEN IReturn("stalled") /\ UNCHANGED signal
                       ELSE /\ signal' = TrySend(signal)
                            /\ ipc' = "flushloop"
                            /\ UNCHANGED <<ev, bufc>>
               ELSE /\ signal' = TrySend(signal)
                    /\ ipc' = "flushloop"
                    /\ UNCHANGED <<connectionRetries, ev, bufc>>
       ELSE /\ noProgressCount' = 0
            /\ connectionRetries' = 0
            /\ lastSize' = currentSize
            /\ signal' = TrySend(signal)
            /\ ipc' = "flushloop"
            /\ UNCHANGED <<ev, bufc>>
    /\ UNCHANGED <<bufg, conc, aux, config, ctxDone, scanned, line, hasProcessedLogs,
                   exited, deliver>>

\* processor.go:139-146
IGrace ==
    /\ ~exited /\ ipc = "grace"
    /\ IReturn("flushed")
    /\ UNCHANGED <<bufg, conc, aux, config, ctxDone, signal, scanned, line, hasProcessedLogs,
                   lastSize, noProgressCount, connectionRetries, exited, deliver>>

Ingest ==
    \/ IScanLine \/ IScanEnd \/ IWrite \/ ISignal \/ IFlushCheck \/ IFlushStart
    \/ IFlushLoop \/ IFlushCancel \/ IFlushTick \/ IGrace

\* ---- HTTPClient.SendLogs (client.go:127-427) ----
\* strings.Split(data, "\n") (client.go:205)
RECURSIVE Split(_, _)
Split(s, cur) ==
    IF s = <<>> THEN <<cur>>
    ELSE IF Head(s) = Newline THEN <<cur>> \o Split(Tail(s), <<>>)
    ELSE Split(Tail(s), Append(cur, Head(s)))

\* client.go:206-214: the non-empty lines, as fresh queue entries; inBackoff
\* stands for lastAttempt being set and less than calculateBackoff(retries)
\* ago; eid numbers the entries in the order they were queued and fails
\* counts the sends of the entry that failed
NonEmpty(lines) == SelectSeq(lines, LAMBDA l : l # <<>>)
Entries(lines, first) ==
    [i \in 1..Len(lines) |->
        [message |-> lines[i], retries |-> 0, inBackoff |-> FALSE, eid |-> first + i,
         fails |-> 0]]

\* client.go:163-168, 232-234: the token
ShouldExitNever(done) == FALSE
ShouldExit(done) == done

\* client.go:160-161: up to the loop
DStart ==
    /\ ~exited /\ dpc = "start"
    /\ dpc' = "top"
    /\ ev' = [ev EXCEPT !.startCancelled = ctxDone]
    /\ UNCHANGED <<bufv, conc, aux, config, ctxDone, signal, ingest, requestQueue,
                   successCount, failCount, batchCount, nextEid, outcome>>

DReturn(how) ==
    /\ dpc' = "returned"
    /\ ev' = [ev EXCEPT !.dexit = how]

\* client.go:161-168
DTop ==
    /\ ~exited /\ dpc = "top"
    /\ IF ShouldExit(ctxDone)
       THEN DReturn("cancel-top")
       ELSE dpc' = "fill" /\ UNCHANGED ev
    /\ UNCHANGED <<bufv, conc, aux, config, ctxDone, signal, ingest, requestQueue,
                   successCount, failCount, batchCount, nextEid, outcome>>

\* buffer.go:130-168 on a file that may be closed
ReadIO(cb, maxBytes, isClosed) ==
    IF cb.size > 0 /\ isClosed /\ ToRead(cb.size, maxBytes) > 0
    THEN [cb |-> cb, data |-> <<>>, err |-> "closed", chunks |-> 0]
    ELSE ReadResult(cb, maxBytes)

\* client.go:183: the queue is empty and the buffer has data
RefillAlways(q, hasData) == hasData
Refill(q, hasData) == Len(q) = 0 /\ hasData

\* client.go:183-219: an empty queue is refilled with one chunk of the buffer
DFill ==
    /\ ~exited /\ dpc = "fill"
    /\ IF Refill(requestQueue, size > 0)
       THEN LET r == ReadIO(CB, ReadChunkSize, closed)
                lines == NonEmpty(Split(r.data, <<>>))
            IN  /\ file' = r.cb.file
                /\ readPos' = r.cb.readPos
                /\ size' = r.cb.size
                /\ readLog' = readLog \o r.data
                /\ ev' = [ev EXCEPT !.didRead = TRUE]
                /\ IF r.err \notin {"nil", "EOF"}
                   THEN /\ signal' = 0
                        /\ dpc' = "top"
                        /\ UNCHANGED <<requestQueue, nextEid>>
                   ELSE /\ dpc' = "idle"
                        /\ UNCHANGED signal
                        /\ IF Len(r.data) > 0
                           THEN /\ requestQueue' = requestQueue \o Entries(lines, nextEid)
                                /\ nextEid' = nextEid + Len(lines)
                           ELSE UNCHANGED <<requestQueue, nextEid>>
       ELSE /\ dpc' = "idle"
            /\ UNCHANGED <<file, readPos, size, readLog, ev, signal, requestQueue, nextEid>>
    /\ UNCHANGED <<writePos, fileSize, maxSize, written, fits, op, conc, aux, config, ctxDone,
                   ingest, successCount, failCount, batchCount, outcome>>

\* client.go:222-223, 239
DIdle ==
    /\ ~exited /\ dpc = "idle"
    /\ dpc' = (IF Len(requestQueue) = 0 /\ ~(size > 0) THEN "wait"
               ELSE IF Len(requestQueue) > 0 THEN "process"
               ELSE "top")
    /\ UNCHANGED <<bufv, conc, aux, config, ctxDone, signal, ingest, requestQueue,
                   successCount, failCount, batchCount, nextEid, outcome, ev>>

\* client.go:225-228
DWaitSignal ==
    /\ ~exited /\ dpc = "wait"
    /\ signal > 0
    /\ signal' = signal - 1
    /\ dpc' = "top"
    /\ UNCHANGED <<bufv, conc, aux, config, ctxDone, ingest, requestQueue,
                   successCount, failCount, batchCount, nextEid, outcome, ev>>

\* client.go:229-231
DWaitPoll ==
    /\ ~exited /\ dpc = "wait"
    /\ dpc' = "top"
    /\ UNCHANGED <<bufv, conc, aux, config, ctxDone, signal, ingest, requestQueue,
                   successCount, failCount, batchCount, nextEid, outcome, ev>>

\* client.go:232-234
DWaitCancel ==
    /\ ~exited /\ dpc = "wait"
    /\ ShouldExit(ctxDone)
    /\ DReturn("cancel-wait")
    /\ UNCHANGED <<bufv, conc, aux, config, ctxDone, signal, ingest, requestQueue,
                   successCount, failCount, batchCount, nextEid, outcome>>

\* client.go:241: batch or single
BatchModeAlways == config.EnableBatching
BatchMode == config.EnableBatching /\ Len(requestQueue) >= config.BatchSize

\* client.go:244-247
BatchLen == Min(config.BatchSize, Len(requestQueue))

\* client.go:248: batch := requestQueue[:batchSize]
BatchFromEnd(q, n) == SubSeq(q, Len(q) - n + 1, Len(q))
Batch(q, n) == SubSeq(q, 1, n)

\* client.go:250-257: every entry of the batch is out of its backoff
BatchReadyHeadOnly(q, n) == ~q[1].inBackoff
BatchReady(q, n) == \A i \in 1..n : ~q[i].inBackoff

\* client.go:292, 303, 394: the entry is given up
GiveUpAtCeiling(retries, maxRetries) == retries >= maxRetries
GiveUp(retries, maxRetries) == retries > maxRetries

\* the transport: a send started after the token fired fails
\* (client.go:432, 457; net/http)
SendResults == IF ctxDone THEN {FALSE} ELSE {TRUE, FALSE}

Delivered(e) == [eid |-> e.eid, message |-> e.message, how |-> "delivered", fails |-> e.fails]
Dropped(e) == [eid |-> e.eid, message |-> e.message, how |-> "dropped", fails |-> e.fails]

\* client.go:289-290, 386-387: retries++ and lastAttempt = now
RetriedAtOnce(e) == [e EXCEPT !.retries = @ + 1, !.inBackoff = FALSE, !.fails = @ + 1]
Retried(e) == [e EXCEPT !.retries = @ + 1, !.inBackoff = TRUE, !.fails = @ + 1]

\* client.go:287-297: a failed batch, seen by one entry
Failed(e, maxRetries) ==
    LET msg == Retried(e)
    IN  IF GiveUp(msg.retries, maxRetries)
        THEN [msg EXCEPT !.retries = maxRetries + 1]
        ELSE msg

\* client.go:336-339: part of the batch is in backoff
DBatchSkip ==
    /\ ~exited /\ dpc = "process"
    /\ BatchMode
    /\ ~BatchReady(requestQueue, BatchLen)
    /\ dpc' = "top"
    /\ ev' = [ev EXCEPT !.didSkip = TRUE]
    /\ UNCHANGED <<bufv, conc, aux, config, ctxDone, signal, ingest, requestQueue,
                   successCount, failCount, batchCount, nextEid, outcome>>

\* client.go:277-313: the batch is sent and refused
DBatchFail ==
    /\ ~exited /\ dpc = "process"
    /\ BatchMode
    /\ BatchReady(requestQueue, BatchLen)
    /\ FALSE \in SendResults
    /\ LET n == BatchLen
           tried == [i \in 1..Len(requestQueue) |->
                       IF i <= n
                       THEN Failed(requestQueue[i], config.MaxRetries)
                       ELSE requestQueue[i]]
           gone == {i \in 1..n : GiveUp(requestQueue[i].retries + 1, config.MaxRetries)}
       IN  /\ failCount' = failCount + Cardinality(gone)
           /\ requestQueue' = SelectSeq(tried, LAMBDA e : e.retries <= config.MaxRetries)
           /\ outcome' = outcome \cup
                 {Dropped(tried[i]) : i \in {j \in 1..Len(tried) : tried[j].retries > config.MaxRetries}}
    /\ ev' = [ev EXCEPT !.didSend = TRUE]
    /\ dpc' = "top"
    /\ UNCHANGED <<bufv, conc, aux, config, ctxDone, signal, ingest, successCount, batchCount,
                   nextEid>>

\* client.go:274, 316-335: the batch is sent and accepted
DBatchOk ==
    /\ ~exited /\ dpc = "process"
    /\ BatchMode
    /\ batchCount < MaxBatchCount
    /\ BatchReady(requestQueue, BatchLen)
    /\ TRUE \in SendResults
    /\ LET n == BatchLen
       IN  /\ successCount' = successCount + n
           /\ batchCount' = batchCount + 1
           /\ requestQueue' = SubSeq(requestQueue, n + 1, Len(requestQueue))
           /\ outcome' = outcome \cup {Delivered(Batch(requestQueue, n)[i]) : i \in 1..n}
    /\ ev' = [ev EXCEPT !.didSend = TRUE]
    /\ dpc' = "top"
    /\ UNCHANGED <<bufv, conc, aux, config, ctxDone, signal, ingest, failCount, nextEid>>

\* client.go:342-358: the head is in backoff
DSingleSkip ==
    /\ ~exited /\ dpc = "process"
    /\ ~BatchMode
    /\ requestQueue[1].inBackoff
    /\ dpc' = "top"
    /\ UNCHANGED <<bufv, conc, aux, config, ctxDone, signal, ingest, requestQueue,
                   successCount, failCount, batchCount, nextEid, outcome, ev>>

\* client.go:385-407: the head is sent and refused
DSingleFail ==
    /\ ~exited /\ dpc = "process"
    /\ ~BatchMode
    /\ ~requestQueue[1].inBackoff
    /\ FALSE \in SendResults
    /\ LET msg == Retried(requestQueue[1])
       IN  IF GiveUp(msg.retries, config.MaxRetries)
           THEN /\ failCount' = failCount + 1
                /\ requestQueue' = Tail(requestQueue)
                /\ outcome' = outcome \cup {Dropped(msg)}
           ELSE /\ requestQueue' = [requestQueue EXCEPT ![1] = msg]
                /\ UNCHANGED <<failCount, outcome>>
    /\ ev' = [ev EXCEPT !.didSend = TRUE]
    /\ dpc' = "top"
    /\ UNCHANGED <<bufv, conc, aux, config, ctxDone, signal, ingest, successCount, batchCount,
                   nextEid>>

\* client.go:385, 409-423: the head is sent and accepted
DSingleOk ==
    /\ ~exited /\ dpc = "process"
    /\ ~BatchMode
    /\ ~requestQueue[1].inBackoff
    /\ TRUE \in SendResults
    /\ successCount' = successCount + 1
    /\ requestQueue' = Tail(requestQueue)
    /\ outcome' = outcome \cup {Delivered(requestQueue[1])}
    /\ ev' = [ev EXCEPT !.didSend = TRUE]
    /\ dpc' = "top"
    /\ UNCHANGED <<bufv, conc, aux, config, ctxDone, signal, ingest, failCount, batchCount,
                   nextEid>>

\* time passes: the backoff of the i-th entry is over (client.go:105-124)
BackoffElapses ==
    /\ ~exited
    /\ \E i \in 1..Len(requestQueue) :
          /\ requestQueue[i].inBackoff
          /\ requestQueue' = [requestQueue EXCEPT ![i].inBackoff = FALSE]
    /\ UNCHANGED <<bufv, conc, aux, config, ctxDone, signal, ingest, dpc,
                   successCount, failCount, batchCount, nextEid, outcome, ev>>

Deliver ==
    \/ DStart \/ DTop \/ DFill \/ DIdle \/ DWaitSignal \/ DWaitPoll \/ DWaitCancel
    \/ DBatchSkip \/ DBatchFail \/ DBatchOk \/ DSingleSkip \/ DSingleFail \/ DSingleOk

PipeNext ==
    \/ Cancel \/ MainExit
    \/ IScanLine \/ IScanEnd \/ IWrite \/ ISignal \/ IFlushCheck \/ IFlushStart
    \/ IFlushLoop \/ IFlushCancel \/ IFlushTick \/ IGrace
    \/ DStart \/ DTop \/ DFill \/ DIdle \/ DWaitSignal \/ DWaitPoll \/ DWaitCancel
    \/ DBatchSkip \/ DBatchFail \/ DBatchOk \/ DSingleSkip \/ DSingleFail \/ DSingleOk
    \/ BackoffElapses

PipeSpec == PipeInit /\ [][PipeNext]_vars

\* the same program started with a configuration of EdgeConfigs
EdgePipeSpec == EdgeInit /\ [][PipeNext]_vars

\* the same program with batches of two, reading input whose lines may be two
\* bytes long, so that a record can lie across the end of a chunk
ChunkConfigs == {[MaxRetries |-> MaxMaxRetries, EnableBatching |-> TRUE, BatchSize |-> MaxBatchSize]}
ChunkInit == PipeStart(ChunkConfigs)
ChunkNext == PipeNext \/ IScanWide
ChunkSpec == ChunkInit /\ [][ChunkNext]_vars

\* the same program with the return of main taken step by step
ShutdownNext ==
    \/ Cancel \/ MainClose \/ MainCancel \/ MainEnd
    \/ IScanLine \/ IScanEnd \/ IWrite \/ ISignal \/ IFlushCheck \/ IFlushStart
    \/ IFlushLoop \/ IFlushCancel \/ IFlushTick \/ IGrace
    \/ DStart \/ DTop \/ DFill \/ DIdle \/ DWaitSignal \/ DWaitPoll \/ DWaitCancel
    \/ DBatchSkip \/ DBatchFail \/ DBatchOk \/ DSingleSkip \/ DSingleFail \/ DSingleOk
    \/ BackoffElapses
ShutdownSpec == ChunkInit /\ [][ShutdownNext]_vars

\* the goroutines are scheduled, main returns and time passes; nothing makes
\* the input deliver a line or end, or a signal arrive
FairPipeSpec ==
    /\ PipeSpec
    /\ WF_vars(Deliver)
    /\ WF_vars(IWrite \/ ISignal \/ IFlushCheck \/ IFlushStart \/ IFlushLoop
               \/ IFlushCancel \/ IFlushTick \/ IGrace)
    /\ WF_vars(MainExit)
    /\ WF_vars(BackoffElapses)

\* the same scheduling for the program started with a configuration of EdgeConfigs
FairEdgePipeSpec ==
    /\ EdgePipeSpec
    /\ WF_vars(Deliver)
    /\ WF_vars(IWrite \/ ISignal \/ IFlushCheck \/ IFlushStart \/ IFlushLoop
               \/ IFlushCancel \/ IFlushTick \/ IGrace)
    /\ WF_vars(MainExit)
    /\ WF_vars(BackoffElapses)

\* ---- C11 ----
\* C11: with any number of goroutines calling Write, Read, HasData and
\* GetSize, only the holder of the mutex is inside a method body, 0 <= size
\* <= capacity holds in every state, and every call leaves the buffer exactly
\* as the same call run alone on the state it found at Lock would leave it.
C11_Inv ==
    /\ 0 <= size /\ size <= fileSize
    /\ \A p \in Procs : pc[p] # "idle" => mutex = p

C11_AtomicStep ==
    \A p \in Procs :
      (pc[p] # "idle" /\ pc'[p] = "idle") =>
         /\ pc[p] \in {"w1", "w2", "w3"} =>
               CB' = WriteResult(loc[p].snap, loc[p].data).cb
         /\ pc[p] \in {"r1", "r2", "r3"} =>
               /\ CB' = ReadResult(loc[p].snap, loc[p].maxBytes).cb
               /\ pc[p] = "r3" => loc[p].ret = ReadResult(loc[p].snap, loc[p].maxBytes).data
         /\ pc[p] = "q1" => CB' = loc[p].snap

C11_ConcurrentSafety == [](C11_Inv) /\ [][C11_AtomicStep]_vars

\* a goroutine holds the mutex at the end of a Read body that took bytes
\* written earlier through Write calls, every other goroutine being outside
C11_Witness ==
    /\ \E p \in Procs :
          /\ pc[p] = "r3" /\ loc[p].toRead > 0 /\ mutex = p
          /\ \A q \in Procs \ {p} : pc[q] = "idle"
    /\ written > 0
    /\ size > 0

\* ---- C13 ----
\* a line is still to be delivered: it lies in the buffer or waits in the queue
Undelivered == size > 0 \/ requestQueue # <<>>

NoneDropped == \A o \in outcome : o.how # "dropped"

\* C13: at-least-once delivery. When the program has ended in a run where
\* the token never fired, the buffer never had to evict and no entry was
\* rejected more than maxRetries times, every line written to the buffer has
\* been transmitted successfully: none is left in the buffer or in the queue.
C13_AtLeastOnce ==
    (exited /\ ~ctxDone /\ fits /\ NoneDropped) => ~Undelivered

\* ---- C14 ----
InQueue(id, q) == \E j \in 1..Len(q) : q[j].eid = id

Entry(id, q) == q[CHOOSE j \in 1..Len(q) : q[j].eid = id]

DroppedIds(oc) == {o.eid : o \in {x \in oc : x.how = "dropped"}}

\* an entry in the queue has failed no more than maxRetries times; a dropped
\* entry failed maxRetries + 1 times, is counted once and is not in the queue
C14_Inv ==
    /\ \A i \in 1..Len(requestQueue) :
          /\ requestQueue[i].fails <= config.MaxRetries
          /\ requestQueue[i].retries = requestQueue[i].fails
    /\ \A o \in outcome : o.how = "dropped" => o.fails = config.MaxRetries + 1
    /\ \A o1, o2 \in outcome : o1.eid = o2.eid => o1 = o2
    /\ failCount = Cardinality(DroppedIds(outcome))
    /\ \A o \in outcome : ~InQueue(o.eid, requestQueue)

\* an entry leaves the queue only delivered or dropped; it is dropped by the
\* send that fails it for the (maxRetries + 1)-th time, and that send adds
\* one to the failure counter for it; an entry that stays has failed at most
\* once more
C14_Step ==
    /\ \A i \in 1..Len(requestQueue) :
          LET e == requestQueue[i] IN
          IF InQueue(e.eid, requestQueue')
          THEN /\ Entry(e.eid, requestQueue').fails \in {e.fails, e.fails + 1}
               /\ Entry(e.eid, requestQueue').message = e.message
          ELSE \/ Delivered(e) \in outcome' /\ failCount' = failCount
               \/ /\ e.fails = config.MaxRetries
                  /\ [eid |-> e.eid, message |-> e.message, how |-> "dropped",
                      fails |-> e.fails + 1] \in outcome'
    /\ failCount' - failCount =
          Cardinality(DroppedIds(outcome')) - Cardinality(DroppedIds(outcome))
    /\ outcome \subseteq outcome'
    /\ \A j \in 1..Len(requestQueue') :
          InQueue(requestQueue'[j].eid, requestQueue) \/ requestQueue'[j].eid > nextEid

\* C14: retry exhaustion. An entry is removed as a permanent failure exactly
\* by its (maxRetries + 1)-th failed send, never earlier and never later; the
\* failure counter goes up by one for it, and it is never queued or sent again.
C14_RetryExhaustion == [](C14_Inv) /\ [][C14_Step]_vars

\* an entry was retried and then dropped while another one is in the queue
C14_Witness ==
    /\ config.MaxRetries >= 1
    /\ failCount = 1
    /\ \E o \in outcome : o.how = "dropped" /\ o.fails = config.MaxRetries + 1
    /\ requestQueue # <<>>

\* ---- C15 ----
\* the entries that would make up the batch, and one of them is in backoff
Prospective == 1..Min(config.BatchSize, Len(requestQueue))

HeldBack == \E i \in Prospective : requestQueue[i].inBackoff

\* C15: batch all-or-nothing. In batched mode, when an entry among the
\* first batchSize entries of the queue is inside its backoff window, the
\* loop iteration transmits none of them and leaves the queue as it is.
C15_Step ==
    (/\ config.EnableBatching
     /\ dpc = "process" /\ dpc' # dpc
     /\ HeldBack)
    => /\ requestQueue' = requestQueue
       /\ successCount' = successCount
       /\ failCount' = failCount
       /\ batchCount' = batchCount
       /\ outcome' = outcome
       /\ ev'.didSend = ev.didSend

C15_BatchAllOrNothing == [][C15_Step]_vars

\* a batch was held back, and now its head is ready while its second entry
\* is still in backoff
C15_Witness ==
    /\ ev.didSkip
    /\ BatchMode
    /\ Len(requestQueue) >= 2 /\ config.BatchSize >= 2
    /\ ~requestQueue[1].inBackoff
    /\ requestQueue[2].inBackoff
    /\ dpc = "top"

\* ---- C16 ----
DeliveredIds(oc) == {o.eid : o \in {x \in oc : x.how = "delivered"}}

\* the success counter counts every delivered entry once
C16_Inv == successCount = Cardinality(DeliveredIds(outcome))

\* a step of SendLogs that sends or holds back
Processing == dpc = "process" /\ dpc' # dpc

C16_Step ==
    Processing /\ config.MaxRetries >= 1 =>
      \A i \in 1..Len(requestQueue) :
        LET e == requestQueue[i] IN
        \* the first send of the entry fails: it keeps its place, now in backoff
        /\ (e.fails = 0 /\ Delivered(e) \notin outcome'
            /\ (~InQueue(e.eid, requestQueue')
                \/ Entry(e.eid, requestQueue').fails # 0))
           => /\ Len(requestQueue') = Len(requestQueue)
              /\ requestQueue'[i] = [e EXCEPT !.retries = 1, !.fails = 1,
                                              !.inBackoff = TRUE]
              /\ failCount' = failCount
              /\ successCount' = successCount
        \* in backoff it is not sent
        /\ e.inBackoff
           => /\ InQueue(e.eid, requestQueue')
              /\ Entry(e.eid, requestQueue') = e
        \* the second send is accepted: it leaves the queue, counted once
        /\ (e.fails = 1 /\ Delivered(e) \in outcome')
           => /\ ~InQueue(e.eid, requestQueue')
              /\ ~e.inBackoff
              /\ successCount' - successCount =
                    Cardinality(DeliveredIds(outcome')) - Cardinality(DeliveredIds(outcome))
              /\ failCount' = failCount

\* C16: transient failure then success. With maxRetries >= 1 a record whose
\* first send fails stays where it is in the queue, is sent again only when
\* its backoff has elapsed, and when that send is accepted it leaves the
\* queue with the success counter incremented once for it and the failure
\* counter untouched.
C16_FailThenSuccess == [](C16_Inv) /\ [][C16_Step]_vars

\* single mode: one record, failed once, then delivered
C16_Witness ==
    /\ ~config.EnableBatching
    /\ successCount = 1 /\ failCount = 0
    /\ \E o \in outcome : o.how = "delivered" /\ o.fails = 1
    /\ requestQueue = <<>>

\* ---- C17 ----
\* ProcessInput returns in this step
Returns == ipc # "done" /\ ipc' = "done"

\* when ProcessInput has returned after the token fired, with lines written
\* and none read by SendLogs, the buffer holds all of them
C17_Inv ==
    (/\ ipc = "done"
     /\ ctxDone
     /\ ev.accepted # <<>>
     /\ ~ev.didRead
     /\ fits)
    => /\ size > 0
       /\ size = Len(ev.accepted)
       /\ ReadResult(CB, size).err = "nil"
       /\ ReadResult(CB, size).data = ev.accepted

\* C17: ingestion exit leaves the buffer untouched. Whatever way
\* ProcessInput returns, the step that returns leaves the file, the cursors,
\* the size and the capacity as they are; so after a cancellation that came
\* before SendLogs read anything, the buffer still holds every byte written:
\* HasData is true and Read returns the ingested lines.
C17_ExitKeepsBuffer == [](C17_Inv) /\ [][Returns => UNCHANGED bufc]_vars

\* ---- C18 ----
\* SendLogs is over: it has returned, or the process has ended
SendLogsOver == dpc = "returned" \/ exited

\* started with the token fired, SendLogs reads and sends nothing
C18_Inv ==
    ev.startCancelled => /\ ~ev.didRead
                         /\ ~ev.didSend
                         /\ requestQueue = <<>>
                         /\ dpc \in {"top", "returned"}

\* C18: delivery observes cancellation. Once the token has fired SendLogs
\* comes to an end from every state, whatever is left in its queue; and when
\* the token had fired before SendLogs started, it returns without reading
\* the buffer or transmitting.
C18_DeliveryObservesCancel == [](C18_Inv) /\ (ctxDone ~> SendLogsOver)

\* SendLogs has returned on the token with an entry of its queue in backoff
C18_Witness ==
    /\ dpc = "returned"
    /\ ~exited
    /\ requestQueue # <<>>
    /\ requestQueue[1].inBackoff
    /\ ev.dexit = "cancel-top"

\* ---- C19 ----
\* C19: on cancellation ingestion drains. When the token has fired, a
\* record has been written and the buffer is not empty, ProcessInput returns
\* only out of the drain-wait, never straight out of its read loop.
C19_DrainsOnCancel ==
    [][(/\ Returns
        /\ ctxDone
        /\ hasProcessedLogs /\ ev.accepted # <<>>
        /\ size > 0)
       => ipc = "flushsel"]_vars

\* ---- C20 ----
\* C20: ingestion observes cancellation while blocked on input. After the
\* token has fired ProcessInput returns, also when the input neither delivers
\* another line nor ends.
C20_IngestionObservesCancel == ctxDone ~> (ipc = "done")

\* ---- C21 ----
\* the send of processor.go:55-59 is the step that leaves "signal"
SignalSent == ipc = "signal" /\ ipc' # ipc

\* C21: non-blocking coalescing wakeup. The channel never holds more than
\* one signal; the send after a successful write can always be taken,
\* whatever SendLogs is doing and whether or not a signal is pending; it
\* leaves the channel non-empty and ingestion at the next line.
C21_Inv ==
    /\ signal \in {0, 1}
    /\ (ipc = "signal" /\ ~exited) => ENABLED ISignal

C21_Step == SignalSent => /\ signal' = 1
                          /\ ipc' = "scan"

C21_CoalescingWakeup == [](C21_Inv) /\ [][C21_Step]_vars

\* two records written and signalled while SendLogs has not yet taken a
\* step: the second signal found the channel full and was dropped
C21_Witness ==
    /\ dpc = "start"
    /\ Len(ev.accepted) >= 4
    /\ ipc = "scan"
    /\ signal = 1

\* ---- C22 ----
\* the Write of processor.go:44 returns an error in this step
WriteFails == ipc = "write" /\ ipc' # ipc /\ ev'.accepted = ev.accepted

\* C22: a failed buffer write does not abort ingestion. The step in which
\* Write returns an error sends no signal and stores nothing; unless the
\* token has fired, ProcessInput goes back to reading the next line.
C22_Step ==
    WriteFails => /\ signal' = signal
                  /\ UNCHANGED bufc
                  /\ ipc' # "signal"
                  /\ ~ctxDone => ipc' = "scan"
                  /\ ctxDone => ipc' = "done"

C22_FailedWriteGoesOn == [][C22_Step]_vars

\* the first line was refused, the second is stored and about to be signalled
C22_Witness ==
    /\ scanned = 2
    /\ ipc = "signal"
    /\ ~ctxDone
    /\ ev.accepted = LogMessage(InputLine(2))
    /\ size = 2

\* ---- C23 ----
\* ProcessInput stands in the drain-wait
Draining == ipc \in {"flushloop", "flushsel"}

\* the tick on which the code gives up: the first maxNoProgress ticks
\* without progress start the count of connection retries, and every
\* further one adds a retry
StallTicks == maxNoProgress + maxConnectionRetries - 1

\* C23 as claimed: the drain-wait is over by the maxNoProgress-th
\* consecutive tick on which the size is unchanged.
C23_StallLimit == Draining => noProgressCount < maxNoProgress

\* C23 as amended: the drain-wait gives up exactly on tick
\* maxNoProgress + maxConnectionRetries - 1 without progress.
C23_Inv ==
    /\ Draining => /\ noProgressCount < StallTicks
                   /\ connectionRetries = Max(0, noProgressCount - maxNoProgress + 1)
    /\ ev.iexit = "stalled" => /\ noProgressCount = StallTicks
                               /\ connectionRetries = maxConnectionRetries

C23_Step ==
    /\ (ipc = "flushsel" /\ ipc' # ipc /\ noProgressCount' = StallTicks)
       => (ipc' = "done" /\ ev'.iexit = "stalled")
    /\ (ev.iexit # "stalled" /\ ev'.iexit = "stalled")
       => (ipc = "flushsel" /\ size = lastSize /\ size > 0 /\ UNCHANGED bufc)

C23_StallLimitAmended == [](C23_Inv) /\ [][C23_Step]_vars

\* the drain-wait has given up
C23_Witness ==
    /\ ipc = "done"
    /\ ev.iexit = "stalled"
    /\ noProgressCount = StallTicks
    /\ ~ctxDone

\* ---- C24 ----
\* the input has ended and ProcessInput has not returned yet
AfterInput == ipc \in {"flushq", "flush0", "flushloop", "flushsel", "grace"}

\* a tick of the drain-wait on which the size differs from the last one seen
ProgressTick == ipc = "flushsel" /\ ipc' = "flushloop" /\ size # lastSize

\* the stall counters stay within the stall limit
C24_Inv ==
    /\ noProgressCount \in 0..StallTicks
    /\ connectionRetries \in 0..maxConnectionRetries

\* the ways out of the drain-wait, and the reset on progress
C24_Step ==
    /\ ProgressTick => /\ noProgressCount' = 0
                       /\ connectionRetries' = 0
                       /\ lastSize' = size
    /\ (AfterInput /\ ipc' = "done")
       => \/ ipc = "flushq" /\ ~(hasProcessedLogs /\ size > 0)
                            /\ ev'.iexit = "nothing-to-flush"
          \/ ipc = "grace" /\ ev'.iexit = "flushed"
          \/ ipc = "flushsel" /\ ctxDone /\ ev'.iexit = "cancel-flush"
          \/ ipc = "flushsel" /\ noProgressCount' = StallTicks
                              /\ ev'.iexit = "stalled"
    /\ (ipc # "grace" /\ ipc' = "grace") => (ipc = "flushloop" /\ size = 0)
    /\ AfterInput => (AfterInput' \/ ipc' = "done")

\* C24: once the input has ended ProcessInput returns, whatever the delivery
\* loop does: the drain-wait ends on an empty buffer, on the stall limit or
\* on cancellation, and a tick on which the size changed resets both stall
\* counters.
C24_IngestionTerminates ==
    /\ [](C24_Inv)
    /\ [][C24_Step]_vars
    /\ AfterInput ~> (ipc = "done")

\* the wait saw no progress, then progress, and ended on an empty buffer
\* while an entry was still being retried
C24_Witness ==
    /\ ipc = "done"
    /\ ev.iexit = "flushed"
    /\ noProgressCount = 0
    /\ lastSize > 0 /\ lastSize < Len(ev.accepted)
    /\ \E i \in 1..Len(requestQueue) : requestQueue[i].fails > 0

\* ---- C27 ----
\* a step of SendLogs that transmits: a skipped iteration leaves the queue
\* as it is, a request removes or marks its entries
Transmits == Processing /\ requestQueue' # requestQueue

\* the positions of the queue whose entries the request carried
Carried ==
    {i \in 1..Len(requestQueue) :
        ~(/\ InQueue(requestQueue[i].eid, requestQueue')
          /\ Entry(requestQueue[i].eid, requestQueue') = requestQueue[i])}

\* the request was accepted
Accepted == DeliveredIds(outcome') # DeliveredIds(outcome)

\* C27 as claimed: with batching enabled every transmission carries the
\* first min(batchSize, queue length) entries in one batch request.
C27_Claimed ==
    (config.EnableBatching /\ Transmits)
    => /\ Carried = 1..Min(config.BatchSize, Len(requestQueue))
       /\ Accepted => batchCount' = batchCount + 1

C27_BatchUpToBatchSize == [][C27_Claimed]_vars

\* C27 as amended: with batching enabled a transmission carries the first
\* batchSize entries in one batch request when at least batchSize entries
\* are queued, and the head entry alone in a single request otherwise.
C27_Step ==
    (config.EnableBatching /\ Transmits)
    => IF Len(requestQueue) >= config.BatchSize
       THEN /\ Carried = 1..config.BatchSize
            /\ Accepted => /\ batchCount' = batchCount + 1
                           /\ successCount' = successCount + config.BatchSize
       ELSE /\ Carried = {1}
            /\ batchCount' = batchCount
            /\ Accepted => successCount' = successCount + 1

C27_FullBatchOrSingle == [][C27_Step]_vars

\* two entries went out while fewer than batchSize were queued, each alone
C27_Witness ==
    /\ config.EnableBatching /\ config.BatchSize = 2
    /\ batchCount = 0
    /\ successCount = 2
    /\ requestQueue = <<>>

\* ---- C28 ----
\* C28: cursor consistency. In every reachable state of the buffer the
\* unread region ends at the write cursor:
\* writePos = (readPos + size) mod capacity.
C28_CursorConsistency == writePos = (readPos + size) % fileSize

\* ---- C29 ----
\* buffer.go:98-113 and 146-161: the transfers <<offset, length>> of a call
\* that moves n bytes from cursor pos in a file of capacity fs
Transfers(n, pos, fs) ==
    IF pos + n <= fs
    THEN << <<pos, n>> >>
    ELSE << <<pos, fs - pos>>, <<0, n - (fs - pos)>> >>

\* the transfers of the last call: growth, if any, precedes them, so the
\* capacity they see is the one the call leaves
LastTransfers ==
    CASE op.name = "write" /\ op.err = "nil"
            -> Transfers(Len(op.data), op.preWritePos, fileSize)
      [] op.name = "read" /\ op.err = "nil"
            -> Transfers(Len(op.ret), op.preReadPos, fileSize)
      [] OTHER -> <<>>

InsideFile(t) == t[1] >= 0 /\ t[2] >= 0 /\ t[1] + t[2] <= fileSize

\* C29: every Write and every Read performs at most two file transfers and
\* every transfer lies inside the file range [0, capacity).
C29_TransfersInsideFile ==
    /\ Len(LastTransfers) <= 2
    /\ \A i \in 1..Len(LastTransfers) : InsideFile(LastTransfers[i])
    /\ Len(file) = fileSize

\* ---- the buffer over a file that can fail or be closed ----
\* the file operation of a call that meets an I/O error, if any
Faults == {"none", "truncate", "write1", "write2"}

\* os.File: Truncate on a closed file fails; WriteAt and ReadAt loop while
\* bytes are left, so with an empty slice they return nil without touching
\* the descriptor, closed or not
FileOpFails(isClosed, fault, which, len) ==
    /\ which = "truncate" \/ len > 0
    /\ isClosed \/ fault = which

ErrKind(isClosed) == IF isClosed THEN "closed" ELSE "io"

\* buffer.go:65-127 with the error returns of lines 91-93, 100-102, 106-111
WriteIO(cb, data, isClosed, fault) ==
    LET dataLen == Len(data) IN
    IF TooLarge(dataLen, cb.maxSize)
    THEN WriteResult(cb, data)
    ELSE
      LET requiredSpace == cb.size + dataLen
          newSize == NewSize(cb.fileSize, cb.maxSize)
          over == requiredSpace > cb.fileSize
          evict == over /\ EvictBranch(requiredSpace, newSize, cb.size, cb.maxSize)
          grow == over /\ ~evict /\ GrowBranch(requiredSpace, newSize)
          cb1 == IF evict
                 THEN [cb EXCEPT !.readPos = (cb.writePos + dataLen) % cb.fileSize,
                                 !.size = cb.fileSize]
                 ELSE IF grow
                 THEN [cb EXCEPT !.file = Truncate(cb.file, newSize),
                                 !.fileSize = newSize]
                 ELSE cb
          wp == cb1.writePos
          fs == cb1.fileSize
          oneChunk == wp + dataLen <= fs
          firstChunkSize == IF oneChunk THEN dataLen ELSE fs - wp
          failed(c) == [cb |-> c, n |-> 0, err |-> ErrKind(isClosed), chunks |-> 0,
                        grew |-> grow, evicted |-> evict]
      IN  IF grow /\ FileOpFails(isClosed, fault, "truncate", 0)
          THEN failed(cb)
          ELSE IF ~SliceOK(dataLen, wp, fs)
          THEN WriteResult(cb, data)
          ELSE IF FileOpFails(isClosed, fault, "write1", firstChunkSize)
          THEN failed(cb1)
          ELSE IF ~oneChunk
                  /\ FileOpFails(isClosed, fault, "write2", dataLen - firstChunkSize)
          THEN failed([cb1 EXCEPT
                         !.file = WriteAt(cb1.file, SubSeq(data, 1, firstChunkSize), wp)])
          ELSE WriteResult(cb, data)

IOWrite ==
    \E n \in 0..(maxSize + 1), fault \in Faults :
      LET data == Stamps(written, n)
          r == WriteIO(CB, data, closed, fault)
          \* bytes of a failed call may be in the file: their stamps are used up
          used == IF r.err \in {"io", "closed"} THEN n ELSE r.n
      IN  /\ written + used <= MaxWritten
          /\ file' = r.cb.file
          /\ readPos' = r.cb.readPos
          /\ writePos' = r.cb.writePos
          /\ size' = r.cb.size
          /\ fileSize' = r.cb.fileSize
          /\ written' = written + used
          /\ op' = Call("write", data, 0, <<r.n>>, r.err, r.chunks, r.grew, r.evicted)
          /\ UNCHANGED <<maxSize, readLog, fits, closed, calc, stream, conc, pipe>>

IORead ==
    \E maxBytes \in 0..MaxReadBytes :
      LET r == ReadIO(CB, maxBytes, closed)
      IN  /\ file' = r.cb.file
          /\ readPos' = r.cb.readPos
          /\ size' = r.cb.size
          /\ op' = Call("read", NoData, maxBytes, r.data, r.err, r.chunks, FALSE, FALSE)
          /\ UNCHANGED <<writePos, fileSize, maxSize, written, readLog, fits, closed,
                         calc, stream, conc, pipe>>

\* buffer.go:178-182: os.File.Close returns an error on a closed file
IOClose ==
    /\ closed' = TRUE
    /\ op' = Call("close", NoData, 0, NoData, IF closed THEN "closed" ELSE "nil",
                  0, FALSE, FALSE)
    /\ UNCHANGED <<file, readPos, writePos, size, fileSize, maxSize, written, readLog,
                   fits, calc, stream, conc, pipe>>

IONext == IOWrite \/ IORead \/ IOClose

\* NewBuffer with the largest maxSize, on a fresh or a left-over file
IOInit ==
    /\ ConcIdle
    /\ PipeIdle
    /\ AuxIdle
    /\ \E existing \in 0..MaxExisting : NewBuffer(MaxMaxSize, existing)
    /\ written = 0
    /\ readLog = <<>>
    /\ fits = TRUE
    /\ op = [name |-> "new", data |-> NoData, maxBytes |-> 0, ret |-> NoData,
             err |-> "nil", chunks |-> 0, grew |-> FALSE, evicted |-> FALSE,
             preSize |-> 0, preReadPos |-> 0, preWritePos |-> 0, preFileSize |-> 0]

IOSpec == IOInit /\ [][IONext]_vars

\* ---- C26 ----
\* C26: after Close every Write and every Read fails with the closed-file
\* error, whatever the occupancy, and a second Close returns normally.
C26_ClosedFails ==
    /\ (closed /\ op.name \in {"write", "read"}) => op.err = "closed"
    /\ op.name = "close" => op.err \in {"nil", "closed"}

\* ---- C30 ----
\* C30: a Write that returns an error because a file operation failed
\* leaves size, readPos and writePos as they were before the call.
C30_NoTornState ==
    (op.name = "write" /\ op.err \in {"io", "closed"})
    => /\ size = op.preSize
       /\ readPos = op.preReadPos
       /\ writePos = op.preWritePos

\* ---- int64 (time.Duration) ----
\* a two's-complement integer of w bytes is the sequence of its bytes,
\* lowest first
IntBytes == 8
Byte == 256

\* the w-byte integer of a number n with 0 <= n < 2^31
ToVec(n, w) == [k \in 1..w |-> IF k <= 4 THEN (n \div Byte^(k - 1)) % Byte ELSE 0]

\* 1 << s in w bytes: the bit shifted beyond the width is lost
OneShiftLeft(s, w) == [k \in 1..w |-> IF k - 1 = s \div 8 THEN 2^(s % 8) ELSE 0]

\* the sum of a[i] * b[k + 1 - i] for i in 1..j
RECURSIVE Column(_, _, _, _)
Column(a, b, k, j) ==
    IF j = 0 THEN 0 ELSE a[j] * b[k + 1 - j] + Column(a, b, k, j - 1)

\* a * b, wrapping: byte k of the product and the carry into byte k + 1
RECURSIVE MulFrom(_, _, _, _)
MulFrom(a, b, k, carry) ==
    IF k > Len(a) THEN <<>>
    ELSE LET t == Column(a, b, k, k) + carry
         IN  <<t % Byte>> \o MulFrom(a, b, k + 1, t \div Byte)

MulVec(a, b) == MulFrom(a, b, 1, 0)

IsNeg(a) == a[Len(a)] >= Byte \div 2

\* a < b, signed
RECURSIVE LessFrom(_, _, _)
LessFrom(a, b, k) ==
    IF k < 1 THEN FALSE
    ELSE IF a[k] # b[k] THEN a[k] < b[k]
    ELSE LessFrom(a, b, k - 1)

LessVec(a, b) ==
    IF IsNeg(a) # IsNeg(b) THEN IsNeg(a) ELSE LessFrom(a, b, Len(a))

\* the same integer in w bytes, w >= Len(a)
SignExtend(a, w) ==
    [k \in 1..w |-> IF k <= Len(a) THEN a[k] ELSE IF IsNeg(a) THEN Byte - 1 ELSE 0]

\* time.Millisecond, time.Second (nanoseconds)
Millisecond == ToVec(1000000, IntBytes)
Second == ToVec(1000000000, IntBytes)
Seconds(n) == MulVec(ToVec(n, IntBytes), Second)

\* ---- calculateBackoff (client.go:105-124) ----
MaxNegative == 3
MaxRetryCount == 70

\* client.go:107-109
MinBackoff == MulVec(ToVec(100, IntBytes), Millisecond)

\* client.go:115
MaxBackoff == Seconds(30)

\* client.go:112: time.Duration(1<<uint(retryCount-1)) * time.Second
Exponential(retryCount) == MulVec(OneShiftLeft(retryCount - 1, IntBytes), Second)

\* client.go:106-117: the value before the jitter
BackoffBeforeJitter(retryCount) ==
    IF retryCount <= 0 THEN MinBackoff
    ELSE LET backoff == Exponential(retryCount)
         IN  IF LessVec(MaxBackoff, backoff) THEN MaxBackoff ELSE backoff

\* client.go:120: rand.Float64()*0.4 - 0.2 lies in [-0.2, 0.2); in percent
Jitters == {-20, -10, 0, 10, 19}

BackoffInit ==
    /\ ConcIdle
    /\ PipeIdle
    /\ closed = FALSE
    /\ stream = NoStream
    /\ \E n \in (-MaxNegative)..MaxRetryCount : calc = [NoCalc EXCEPT !.retryCount = n]
    /\ NewBuffer(MaxMaxSize, 0)
    /\ written = 0
    /\ readLog = <<>>
    /\ fits = TRUE
    /\ op = [name |-> "new", data |-> NoData, maxBytes |-> 0, ret |-> NoData,
             err |-> "nil", chunks |-> 0, grew |-> FALSE, evicted |-> FALSE,
             preSize |-> 0, preReadPos |-> 0, preWritePos |-> 0, preFileSize |-> 0]

\* the call: calc.backoff is the value before the jitter and calc.jitter the
\* percentage drawn at line 120, so that the result is
\* backoff * (100 + jitter) / 100; a call with retryCount <= 0 returns at
\* line 108 without jitter
CalculateBackoff ==
    /\ ~calc.done
    /\ \E j \in (IF calc.retryCount <= 0 THEN {0} ELSE Jitters) :
          calc' = [calc EXCEPT !.backoff = BackoffBeforeJitter(calc.retryCount),
                               !.jitter = j,
                               !.done = TRUE]
    /\ UNCHANGED <<file, readPos, writePos, size, fileSize, maxSize, written, readLog,
                   fits, op, closed, stream, conc, pipe>>

BackoffNext == CalculateBackoff

BackoffSpec == BackoffInit /\ [][BackoffNext]_vars

\* ---- C25 ----
\* min(30 s, 2^(n-1) s): 2^5 s is already more than 30 s
CappedExponential(n) ==
    IF n - 1 >= 5 THEN Seconds(30) ELSE Seconds(2^(n - 1))

\* 100 times the result of the call (backoff * (100 + jitter)) lies between
\* 100 * lo and 100 * hi seconds; in 10 bytes nothing wraps
WideBytes == 10
Hundredfold(a) == MulVec(SignExtend(a, WideBytes), ToVec(100, WideBytes))
JitteredHundredfold ==
    MulVec(SignExtend(calc.backoff, WideBytes), ToVec(100 + calc.jitter, WideBytes))
ResultWithin(lo, hi) ==
    /\ ~LessVec(JitteredHundredfold, Hundredfold(Seconds(lo)))
    /\ ~LessVec(Hundredfold(Seconds(hi)), JitteredHundredfold)

\* C25: before the jitter calculateBackoff(n) is 100 ms for n <= 0 and
\* min(30 s, 2^(n-1) s) for n >= 1, it does not decrease from n - 1 to n,
\* and for large n the result with jitter lies within [24 s, 36 s].
C25_BackoffFunction ==
    calc.done =>
      /\ calc.retryCount <= 0 => calc.backoff = MinBackoff
      /\ calc.retryCount >= 1 => calc.backoff = CappedExponential(calc.retryCount)
      /\ ~LessVec(calc.backoff, BackoffBeforeJitter(calc.retryCount - 1))
      /\ calc.retryCount >= 6 => ResultWithin(24, 36)

\* ---- C31 ----
\* a step that takes bytes out of the buffer, a step that queues entries
BufferRead == readLog' # readLog
QueueGrows == Len(requestQueue') > Len(requestQueue)

\* the non-empty lines that one chunk of ReadChunkSize bytes can hold
MaxChunkLines == (ReadChunkSize + 1) \div 2

C31_Inv ==
    /\ Len(requestQueue) <= MaxChunkLines
    /\ \A i \in 1..Len(requestQueue) :
          /\ requestQueue[i].message # <<>>
          /\ i > 1 => requestQueue[i].eid = requestQueue[i - 1].eid + 1

C31_Step ==
    /\ BufferRead => (dpc = "fill" /\ Len(requestQueue) = 0)
    /\ QueueGrows => (BufferRead /\ Len(requestQueue) = 0)
    /\ (dpc = "fill" /\ dpc' # dpc /\ Len(requestQueue) > 0)
       => (UNCHANGED bufc /\ requestQueue' = requestQueue)

\* C31: the delivery loop reads the buffer only when its queue is empty, so
\* the queue holds the non-empty lines of one chunk at most and no entry
\* with an empty message.
C31_RefillOnlyWhenEmpty == [](C31_Inv) /\ [][C31_Step]_vars

\* the refill was passed over: an entry waits out its backoff while the
\* buffer holds data
C31_Witness ==
    /\ dpc = "idle"
    /\ size > 0
    /\ Len(requestQueue) > 0
    /\ requestQueue[1].inBackoff
    /\ ev.didRead

\* ---- C32 ----
\* C32: conservation of records. At every loop head of SendLogs the records
\* queued so far are the delivered ones, the ones counted as failed and the
\* ones in the queue, for every batching mode and every maxRetries.
C32_Conservation ==
    dpc = "top" => nextEid = successCount + failCount + Len(requestQueue)

\* ---- C33 ----
\* SendLogs is blocked in its idle wait while the buffer holds data
WaitingOnData == ~exited /\ dpc = "wait" /\ size > 0

\* C33 as claimed: whenever the delivery loop is blocked in its idle wait
\* while the buffer holds data, a signal is pending in the channel.
C33_SignalPending == WaitingOnData => signal = 1

\* C33 as amended: whenever the delivery loop is blocked in its idle wait
\* while the buffer holds data, a signal is pending or ProcessInput stands
\* between its Write and the send of the signal, which it can always take;
\* so the wait can end without the poll timeout.
C33_NoLostWakeup ==
    WaitingOnData =>
      \/ signal = 1 /\ ENABLED DWaitSignal
      \/ ipc = "signal" /\ ENABLED ISignal

\* a write landed after SendLogs found the buffer empty, and its signal is
\* in the channel
C33_Witness ==
    /\ WaitingOnData
    /\ signal = 1
    /\ ipc = "scan"
    /\ ev.didSend

\* ---- C34 ----
\* the complete lines ingestion has written to the buffer
Range(f) == {f[i] : i \in DOMAIN f}
AcceptedLines == Range(NonEmpty(Split(ev.accepted, <<>>)))

\* C34: every entry of the retry queue is one complete line as ProcessInput
\* wrote it, never a part of a line and never two lines in one, also when a
\* line lies across the boundary between two chunk reads.
C34_WholeLines ==
    \A i \in 1..Len(requestQueue) : requestQueue[i].message \in AcceptedLines

\* ---- C35 ----
DeliveredNow == {o \in outcome' \ outcome : o.how = "delivered"}
DeliveredBefore == {o \in outcome : o.how = "delivered"}

\* the entries of the queue stand in the order they were enqueued
C35_Inv ==
    \A i, j \in 1..Len(requestQueue) : i < j => requestQueue[i].eid < requestQueue[j].eid

\* a record is transmitted successfully only from the front of the queue:
\* it was in the queue, every record left in the queue was enqueued after it,
\* and every record delivered before it was enqueued before it
C35_Step ==
    \A o \in DeliveredNow :
        /\ \E i \in 1..Len(requestQueue) : requestQueue[i].eid = o.eid
        /\ \A i \in 1..Len(requestQueue') : requestQueue'[i].eid > o.eid
        /\ \A b \in DeliveredBefore : b.eid < o.eid

\* C35: no record is transmitted successfully while a record enqueued earlier
\* is still in the queue; single mode sends the head, batched mode the first
\* batchSize entries, so successful transmissions follow the enqueue order.
C35_DeliveryInOrder == [](C35_Inv) /\ [][C35_Step]_vars

\* a batch of one was delivered from a queue of two, the second is left
C35_Witness ==
    /\ batchCount = 1 /\ successCount = 1 /\ Len(requestQueue) = 1
    /\ \E o \in outcome : o.how = "delivered" /\ o.eid < requestQueue[1].eid

\* ---- C36 ----
\* the delivery loop sends a batch in this step; it is refused or accepted
BatchStep == dpc = "process" /\ dpc' = "top" /\ BatchMode /\ BatchReady(requestQueue, BatchLen)
BatchRefused == BatchStep /\ batchCount' = batchCount
BatchAccepted == BatchStep /\ batchCount' # batchCount

BeyondBatch == SubSeq(requestQueue, BatchLen + 1, Len(requestQueue))
Attempted ==
    [i \in 1..BatchLen |->
        [requestQueue[i] EXCEPT !.retries = @ + 1, !.inBackoff = TRUE, !.fails = @ + 1]]
Exceeded == {i \in 1..BatchLen : Attempted[i].retries > config.MaxRetries}

C36_Step ==
    /\ BatchRefused =>
          /\ requestQueue' = SelectSeq(Attempted, LAMBDA e : e.retries <= config.MaxRetries)
                                \o BeyondBatch
          /\ failCount' = failCount + Cardinality(Exceeded)
          /\ UNCHANGED <<successCount, batchCount>>
    /\ BatchAccepted =>
          /\ requestQueue' = BeyondBatch
          /\ successCount' = successCount + BatchLen
          /\ batchCount' = batchCount + 1
          /\ UNCHANGED failCount

\* C36: a refused batch adds one to the retry count of exactly its entries
\* and sets their lastAttempt, leaves the entries beyond the batch as they
\* are and queued, and removes each batch entry now over maxRetries, counted
\* once as a failure; an accepted batch removes exactly its entries, adds the
\* batch length to the success counter and one to the batch counter.
C36_BatchOutcome == [][C36_Step]_vars

\* ---- C37 ----
Queued(e) == \E i \in 1..Len(requestQueue) : requestQueue[i].eid = e
HeadIs(e) == Len(requestQueue) > 0 /\ requestQueue[1].eid = e

\* C37: whenever the retry queue is non-empty and the token has not fired,
\* the head entry is eventually removed from the queue (delivered or given
\* up), unless the token fires or the process ends first; for every batching
\* configuration the program accepts, batch size 0 included.
C37_QueueProgress ==
    \A e \in 1..MaxLines :
        (HeadIs(e) /\ ~ctxDone /\ ~exited) ~> (~Queued(e) \/ ctxDone \/ exited)

\* ---- PapertrailClient.SendLogs (unnamed/part_005), the streaming sender ----
\* what a step of the sender leaves alone besides the buffer and the channel
StreamFrame ==
    UNCHANGED <<writePos, fileSize, maxSize, written, fits, op, conc, closed, calc,
                config, ctxDone, ingest, deliver, ev>>

\* part_005:43-49
STop ==
    /\ ~exited /\ stream.pc = "top"
    /\ stream' = [stream EXCEPT !.pc = IF ShouldExit(ctxDone) THEN "returned" ELSE "check"]
    /\ UNCHANGED <<file, readPos, size, readLog, signal>>
    /\ StreamFrame

\* part_005:52, 65-66: no data, no connection, or ready to read
SCheck ==
    /\ ~exited /\ stream.pc = "check"
    /\ stream' = [stream EXCEPT !.pc = IF ~(size > 0) THEN "wait"
                                       ELSE IF ~stream.conn THEN "connect"
                                       ELSE "read"]
    /\ UNCHANGED <<file, readPos, size, readLog, signal>>
    /\ StreamFrame

\* part_005:54-56, 62
SWaitSignal ==
    /\ ~exited /\ stream.pc = "wait"
    /\ signal > 0
    /\ signal' = signal - 1
    /\ stream' = [stream EXCEPT !.pc = "top"]
    /\ UNCHANGED <<file, readPos, size, readLog>>
    /\ StreamFrame

\* part_005:57-58, 62
SWaitPoll ==
    /\ ~exited /\ stream.pc = "wait"
    /\ stream' = [stream EXCEPT !.pc = "top"]
    /\ UNCHANGED <<file, readPos, size, readLog, signal>>
    /\ StreamFrame

\* part_005:59-60
SWaitCancel ==
    /\ ~exited /\ stream.pc = "wait"
    /\ ShouldExit(ctxDone)
    /\ stream' = [stream EXCEPT !.pc = "returned"]
    /\ UNCHANGED <<file, readPos, size, readLog, signal>>
    /\ StreamFrame

\* part_005:98-133: connectWithRetry returns a connection, at once or after
\* some retries, or an error when the token has fired
DialResults == IF ctxDone THEN {TRUE, FALSE} ELSE {TRUE}

\* part_005:66-75
SConnect ==
    /\ ~exited /\ stream.pc = "connect"
    /\ \E ok \in DialResults :
          stream' = [stream EXCEPT !.conn = ok, !.pc = IF ok THEN "read" ELSE "top"]
    /\ UNCHANGED <<file, readPos, size, readLog, signal>>
    /\ StreamFrame

\* part_005:78-83, 92-95: the chunk is taken out of the buffer
SRead ==
    /\ ~exited /\ stream.pc = "read"
    /\ LET r == ReadResult(CB, ReadChunkSize)
       IN  /\ file' = r.cb.file
           /\ readPos' = r.cb.readPos
           /\ size' = r.cb.size
           /\ readLog' = readLog \o r.data
           /\ IF r.err \notin {"nil", "EOF"}
              THEN stream' = [stream EXCEPT !.pc = "top"]
              ELSE stream' = [stream EXCEPT !.data = r.data,
                                            !.pc = IF Len(r.data) > 0 THEN "write" ELSE "top"]
    /\ UNCHANGED signal
    /\ StreamFrame

\* part_005:85-91: after a failed Write the chunk, a local of the iteration,
\* is gone with the `continue`
AfterWriteFail(data) == <<>>

\* part_005:86: conn.Write returns nil
SWriteOk ==
    /\ ~exited /\ stream.pc = "write"
    /\ stream' = [stream EXCEPT !.sent = @ \o stream.data, !.data = <<>>, !.pc = "top"]
    /\ UNCHANGED <<file, readPos, size, readLog, signal>>
    /\ StreamFrame

\* part_005:86-90: conn.Write returns an error
SWriteFail ==
    /\ ~exited /\ stream.pc = "write"
    /\ stream' = [stream EXCEPT !.conn = FALSE, !.data = AfterWriteFail(stream.data),
                                !.pc = "top"]
    /\ UNCHANGED <<file, readPos, size, readLog, signal>>
    /\ StreamFrame

Stream ==
    \/ STop \/ SCheck \/ SWaitSignal \/ SWaitPoll \/ SWaitCancel \/ SConnect \/ SRead
    \/ SWriteOk \/ SWriteFail

\* the program with the streaming sender in the place of HTTPClient.SendLogs
StreamNext ==
    \/ Cancel \/ MainExit
    \/ IScanLine \/ IScanEnd \/ IWrite \/ ISignal \/ IFlushCheck \/ IFlushStart
    \/ IFlushLoop \/ IFlushCancel \/ IFlushTick \/ IGrace
    \/ Stream

StreamSpec == ChunkInit /\ [][StreamNext]_vars

\* ---- C38 ----
\* the chunk the sender holds between Read and Write
InHand == IF stream.pc = "write" THEN stream.data ELSE <<>>

C38_Inv ==
    /\ stream.pc \in {"read", "write"} => stream.conn
    /\ readLog = stream.sent \o InHand

C38_Step ==
    /\ readLog' # readLog => stream.conn
    /\ (stream.pc = "write" /\ stream'.sent = stream.sent /\ stream'.pc # stream.pc) =>
          /\ ~stream'.conn
          /\ stream'.pc = "top"

\* C38: a chunk is read only while a connection is open; a failed write
\* closes the connection and sets it to nil, the next iteration reconnects
\* before it reads and sends; and every byte taken out of the buffer has been
\* written to a connection with success or is the chunk in hand: the chunk
\* whose write failed is sent again, nothing read is thrown away.
C38_StreamingKeepsData == [](C38_Inv) /\ [][C38_Step]_vars

\* ---- C39 ----
\* C39: when ProcessInput has left the drain-wait through the buffer-empty
\* path, reporting the buffer flushed, and the process has ended, the retry
\* queue of the delivery loop is empty: every record taken from the buffer
\* was delivered or counted as a permanent failure.
C39_FlushedMeansHandedOver ==
    (exited /\ ev.iexit = "flushed") =>
        /\ Len(requestQueue) = 0
        /\ nextEid = successCount + failCount

\* ---- C40 ----
\* SendLogs calls HasData (client.go:183, 222), and with it GetSize and Read
BufferCall == dpc \in {"fill", "idle"} /\ dpc' # dpc /\ Len(requestQueue) = 0

C40_Step ==
    /\ closed' # closed => ~closed /\ ipc = "done"
    /\ BufferCall => ~closed

\* C40: the buffer is closed once, by main's deferred Close when ProcessInput
\* has returned, it is closed when the process ends, and no HasData, GetSize
\* or Read of the delivery loop starts after that Close.
C40_BufferLifecycle == [](exited => closed) /\ [][C40_Step]_vars

====
